---- MODULE Spec2Model ----
(***************************************************************************)
(* A model of src/bot.py: the per-user sliding-window rate limiter, the    *)
(* time-windowed response cache, the LLM client with its one-level model   *)
(* fallback, and the reveal sequence run by handle_message.                *)
(*                                                                         *)
(* Time is in whole seconds.  Every datetime.now() of the source is a      *)
(* separate read of a clock that never goes back: it returns any instant   *)
(* not before the one the previous read returned, which the variable clock *)
(* holds.  Two reads of one handler may differ: by any amount across an    *)
(* await or an HTTP call, by at most MaxDrift otherwise.                   *)
(*                                                                         *)
(* Handlers are asyncio tasks: a task gives up the event loop only at an   *)
(* await of a network call of the chat platform (send_chat_action,         *)
(* send_message, reply_text).  requests.post is a blocking call, so        *)
(* get_ai_response holds the event loop from the cache check to the cache  *)
(* write.  The variable running names the task that holds the event loop   *)
(* (0: the loop is free).  A task's record is dropped when its handler has *)
(* returned or raised.                                                     *)
(*                                                                         *)
(* History, read by no action: log keeps the outcome of the rate check of  *)
(* every trigger handled; served the text the last resolution of each      *)
(* cache key returned; succeeded whether any HTTP attempt has succeeded;   *)
(* and a task's fields checked, seen and lookup what its last rate check   *)
(* and its last cache lookup read.                                         *)
(***************************************************************************)
EXTENDS Integers, Sequences, FiniteSets, TLC

VARIABLES clock, rate_limit_store, cache, tasks, running, log, served, succeeded

vars == <<clock, rate_limit_store, cache, tasks, running, log, served, succeeded>>

----------------------------------------------------------------------------
(* Program constants *)

CACHE_DURATION == 1800

RATE_LIMIT_DURATION == 60

MAX_REQUESTS_PER_MINUTE == 2

FREE_MODEL == "deepseek/deepseek-chat:free"

PAID_MODEL == "deepseek/deepseek-chat"

FALLBACK_TEXT == <<"My temporal consciousness seems to be malfunctioning...">>

CLOSING_URL == "https://www.clockfaceonline.co.uk/clocks/digital/"

CacheKeys == {"philosophical_discussion", "absurd_guess"}

----------------------------------------------------------------------------
(* Bounds of the model *)

NumUsers == 2

MaxTriggers == 3

MaxActive == 2

\* The most the clock advances, in seconds, between two reads of a handler
\* that have neither an await nor an HTTP call between them.
MaxDrift == 1

\* The rejected triggers a user sends on top of MaxTriggers while limited.
MaxRejected == 2

Users == 1..NumUsers

\* The bodies the LLM service may answer with.
AIContents == {<<"ai text a">>, <<"ai text b">>}

\* The instants a clock read may return.  RatePoints lie on both sides of
\* the 60 s window of a timestamp taken at 0 (59, 60, 61); CachePoints on both
\* sides of the 1800 s cache duration of an entry stored at 0 or 10.
RatePoints == {0, 10, 15, 59, 60, 61}

CachePoints == {0, 10, 1800, 1810}

\* WaitPoints: rejections at 15 and 30 of a user limited at 0, and the
\* instant 60 their wait ends at.
WaitPoints == {0, 15, 30, 60}

NoTime == -1

\* None as a text.
NoText == <<>>

\* An environment: the instants its clock returns, the users that trigger,
\* the bodies the LLM service answers with, the number of updates the
\* application handles at a time, and the number of triggers sent.
RateEnv ==
    [ points |-> RatePoints, users |-> Users, contents |-> {<<"ai text a">>},
      concurrent_updates |-> 1, triggers |-> MaxTriggers ]

CacheEnv ==
    [ points |-> CachePoints, users |-> {1}, contents |-> AIContents,
      concurrent_updates |-> 1, triggers |-> MaxTriggers ]

InterleavedEnv ==
    [ points |-> {0, 60}, users |-> {1}, contents |-> {<<"ai text a">>},
      concurrent_updates |-> MaxActive, triggers |-> MaxTriggers ]

\* The LLM service may answer with a body whose content is null.
NullContentEnv ==
    [ points |-> {0, 10}, users |-> {1}, contents |-> {<<"ai text a">>, NoText},
      concurrent_updates |-> 1, triggers |-> MaxTriggers ]

\* One user who keeps triggering while limited.
WaitEnv ==
    [ points |-> WaitPoints, users |-> {1}, contents |-> {<<"ai text a">>},
      concurrent_updates |-> 1, triggers |-> MaxTriggers + MaxRejected ]

NoWait == -1000

----------------------------------------------------------------------------
(* RateLimiter *)

InWindow(current_time, timestamp) ==
    current_time - timestamp < RATE_LIMIT_DURATION

\* cleanup_rate_limit_store without the filter: only empty lists go.
cleanup_rate_limit_store_nofilter(store, current_time) ==
    [u \in {v \in DOMAIN store : store[v] # <<>>} |-> store[u]]

\* cleanup_rate_limit_store deleting no user.
cleanup_rate_limit_store_keep(store, current_time) ==
    [u \in DOMAIN store |-> SelectSeq(store[u], LAMBDA ts : InWindow(current_time, ts))]

\* cleanup_rate_limit_store(): every user's list is filtered, and a user
\* whose list becomes empty is deleted from the mapping.
cleanup_rate_limit_store(store, current_time) ==
    LET pruned(u) == SelectSeq(store[u], LAMBDA ts : InWindow(current_time, ts))
        kept == {u \in DOMAIN store : pruned(u) # <<>>}
    IN  [u \in kept |-> pruned(u)]

\* rate_limit_store[user_id] of a defaultdict(list): reading a missing key
\* inserts it with an empty list.
DefaultGet(store, user_id) ==
    IF user_id \in DOMAIN store
    THEN store
    ELSE [u \in DOMAIN store \cup {user_id} |->
             IF u = user_id THEN <<>> ELSE store[u]]

\* is_rate_limited pruning the list of the queried user alone.
StoreAfterCheck_own(store, current_time, user_id) ==
    LET s == DefaultGet(store, user_id)
    IN  [s EXCEPT ![user_id] = SelectSeq(@, LAMBDA ts : InWindow(current_time, ts))]

\* The store as is_rate_limited(user_id) leaves it.
StoreAfterCheck(store, current_time, user_id) ==
    DefaultGet(cleanup_rate_limit_store(store, current_time), user_id)

\* is_rate_limited with > for >=.
is_rate_limited_gt(store, current_time, user_id) ==
    Len(StoreAfterCheck(store, current_time, user_id)[user_id])
        > MAX_REQUESTS_PER_MINUTE

\* is_rate_limited counting the requests of every user.
is_rate_limited_any(store, current_time, user_id) ==
    \E u \in DOMAIN StoreAfterCheck(store, current_time, user_id) :
        Len(StoreAfterCheck(store, current_time, user_id)[u])
            >= MAX_REQUESTS_PER_MINUTE

is_rate_limited(store, current_time, user_id) ==
    Len(StoreAfterCheck(store, current_time, user_id)[user_id])
        >= MAX_REQUESTS_PER_MINUTE

\* update_rate_limit assigning the new timestamp for appending it.
update_rate_limit_assign(store, now, user_id) ==
    LET s == DefaultGet(store, user_id)
    IN  [s EXCEPT ![user_id] = <<now>>]

\* update_rate_limit recording nothing.
update_rate_limit_skip(store, now, user_id) == DefaultGet(store, user_id)

\* update_rate_limit putting the new timestamp first.
update_rate_limit_prepend(store, now, user_id) ==
    LET s == DefaultGet(store, user_id)
    IN  [s EXCEPT ![user_id] = <<now>> \o @]

update_rate_limit(store, now, user_id) ==
    LET s == DefaultGet(store, user_id)
    IN  [s EXCEPT ![user_id] = Append(@, now)]

\* remaining_time measured against half the window.
remaining_time_half(store, now, user_id) ==
    (RATE_LIMIT_DURATION \div 2) - (now - store[user_id][1])

\* remaining_time of handle_message, in seconds before int().
remaining_time(store, now, user_id) ==
    RATE_LIMIT_DURATION - (now - store[user_id][1])

----------------------------------------------------------------------------
(* ResponseCache *)

\* is_cache_valid that never finds the entry valid.
is_cache_valid_never(c, cache_type, now) == FALSE

is_cache_valid(c, cache_type, now) ==
    IF c[cache_type].timestamp = NoTime
    THEN FALSE
    ELSE now - c[cache_type].timestamp < CACHE_DURATION

\* The cache write keeping the entry's old timestamp.
CacheWrite_stale(c, cache_type, response, now) ==
    [c EXCEPT ![cache_type].text = response]

\* The cache write leaving the entry alone when the text is the fallback
\* string.
CacheWrite_unless_fallback(c, cache_type, response, now) ==
    IF response = FALLBACK_TEXT
    THEN c
    ELSE [c EXCEPT ![cache_type] = [text |-> response, timestamp |-> now]]

CacheWrite(c, cache_type, response, now) ==
    [c EXCEPT ![cache_type] = [text |-> response, timestamp |-> now]]

----------------------------------------------------------------------------
(* LLMClient *)

\* The except branch retrying whatever the model was.
get_ai_response_except_loop(model) ==
    [pc |-> "http", model |-> PAID_MODEL, response |-> NoText]

\* The except branch returning nothing when the paid model fails too.
get_ai_response_except_none(model) ==
    IF model = FREE_MODEL
    THEN [pc |-> "http",  model |-> PAID_MODEL, response |-> NoText]
    ELSE [pc |-> "store", model |-> model,      response |-> NoText]

\* get_ai_response's except branch: what follows a failed attempt with
\* model: the retry with the paid model, or the fixed fallback string.
get_ai_response_except(model) ==
    IF model = FREE_MODEL
    THEN [pc |-> "http",  model |-> PAID_MODEL, response |-> NoText]
    ELSE [pc |-> "store", model |-> model,      response |-> FALLBACK_TEXT]

----------------------------------------------------------------------------
(* TimeRevealSequence: the awaited network calls of time_process, in       *)
(* program order.  act is the call, msg what it sends.                     *)

\* time_process without the message that introduces the estimation.
TIME_PROCESS_six ==
    << [act |-> "send_chat_action", msg |-> "typing"],
       [act |-> "send_message",     msg |-> "intro1"],
       [act |-> "send_chat_action", msg |-> "typing"],
       [act |-> "send_message",     msg |-> "philosophy"],
       [act |-> "send_chat_action", msg |-> "typing"],
       [act |-> "send_message",     msg |-> "intro2"],
       [act |-> "send_chat_action", msg |-> "typing"],
       [act |-> "send_message",     msg |-> "guess"],
       [act |-> "send_chat_action", msg |-> "typing"],
       [act |-> "send_message",     msg |-> "estimation"],
       [act |-> "send_message",     msg |-> "closing"] >>

TIME_PROCESS ==
    << [act |-> "send_chat_action", msg |-> "typing"],
       [act |-> "send_message",     msg |-> "intro1"],
       [act |-> "send_chat_action", msg |-> "typing"],
       [act |-> "send_message",     msg |-> "philosophy"],
       [act |-> "send_chat_action", msg |-> "typing"],
       [act |-> "send_message",     msg |-> "intro2"],
       [act |-> "send_chat_action", msg |-> "typing"],
       [act |-> "send_message",     msg |-> "guess"],
       [act |-> "send_chat_action", msg |-> "typing"],
       [act |-> "send_message",     msg |-> "intro3"],
       [act |-> "send_chat_action", msg |-> "typing"],
       [act |-> "send_message",     msg |-> "estimation"],
       [act |-> "send_message",     msg |-> "closing"] >>

\* The cache key a message's text is resolved from ("none": no LLM text).
KeyOf(msg) ==
    CASE msg = "philosophy" -> "philosophical_discussion"
      [] msg = "guess"      -> "absurd_guess"
      [] OTHER              -> "none"

\* The text of a message of task record r, as a sequence of its parts.  The
\* estimation's random method, hour and minute are not modelled.
TextOf(r, msg) ==
    CASE msg = "philosophy" -> r.texts["philosophical_discussion"]
      [] msg = "guess"      -> r.texts["absurd_guess"]
      [] msg = "closing"    -> <<"I give up.", CLOSING_URL, "(I'll be here...)">>
      [] msg = "intro1"     -> <<"Before I tell you the time, let's ponder...">>
      [] msg = "intro2"     -> <<"Now, let me make an educated guess...">>
      [] msg = "intro3"     -> <<"That didn't feel right. Let me try a more scientific approach...">>
      [] msg = "estimation" -> <<"I estimate it's H:M AM/PM!">>
      [] msg = "deferral"   -> <<"Whoa there, time enthusiast!">>
      [] OTHER              -> <<>>

Emission(r, msg) == [kind |-> msg, text |-> TextOf(r, msg)]

----------------------------------------------------------------------------
(* Tasks *)

Slots == 1..MaxActive

NoLookup ==
    [ key |-> "none", at |-> NoTime,
      entry |-> [text |-> NoText, timestamp |-> NoTime], served |-> NoText ]

IdleTask ==
    [ pc       |-> "idle",
      user     |-> 0,
      id       |-> 0,
      checked  |-> NoTime,
      seen     |-> <<>>,
      wait     |-> NoWait,
      step     |-> 0,
      model    |-> "none",
      response |-> NoText,
      texts    |-> [k \in CacheKeys |-> NoText],
      calls    |-> <<>>,
      lookup   |-> NoLookup,
      out      |-> <<>> ]

\* The user's list as the store holds it (empty when the user is absent).
ListOf(store, user_id) ==
    IF user_id \in DOMAIN store THEN store[user_id] ELSE <<>>

\* The local state of handle_message after its rate check at now.
NewTask(user_id, now, store, n) ==
    [IdleTask EXCEPT
        !.pc = IF is_rate_limited(store, now, user_id) THEN "wait" ELSE "record",
        !.user = user_id,
        !.id = n,
        !.checked = now,
        !.seen = ListOf(store, user_id)]

\* The log entry of a trigger: the requests of the user that were inside
\* the window at its check, the outcome, the timestamp recorded, and the
\* instant the announced wait ends at.
LogEntry(user_id, now, store) ==
    [ user    |-> user_id,
      count   |-> Len(StoreAfterCheck(store, now, user_id)[user_id]),
      limited |-> is_rate_limited(store, now, user_id),
      stamp   |-> NoTime,
      due     |-> NoTime ]

InFlight == {t \in Slots : tasks[t].pc # "idle"}

FreeSlots == Slots \ InFlight

\* Yields with an await between the rate check and update_rate_limit.
Yields_at_record(pc) == pc \in {"await", "reply", "done", "aborted", "record"}

\* Yields with get_ai_response suspended at its HTTP call.
Yields_at_http(pc) == pc \in {"await", "reply", "done", "aborted", "http", "store"}

\* The positions at which a handler does not hold the event loop: it is
\* suspended at an await of a network call, or it is over.  Between the
\* rate check and update_rate_limit, and inside get_ai_response, there is
\* no await.
Yields(pc) == pc \in {"await", "reply", "done", "aborted"}

\* Task t is the one the event loop can run.
CanRun(t) == IF Yields(tasks[t].pc) THEN running = 0 ELSE running = t

\* The holder of the event loop when task t has reached pc.
Holder(t, pc) == IF Yields(pc) THEN 0 ELSE t

\* The instants a datetime.now() may return in environment E.
Now(E) == {now \in E.points : now >= clock}

\* The instants a datetime.now() may return when no await and no HTTP call
\* lies between it and the previous read.
Soon(E) == {now \in Now(E) : now - clock <= MaxDrift}

Init ==
    /\ clock = 0
    /\ rate_limit_store = << >>
    /\ cache = [k \in CacheKeys |-> [text |-> NoText, timestamp |-> NoTime]]
    /\ tasks = [t \in Slots |-> IdleTask]
    /\ running = 0
    /\ log = << >>
    /\ served = [k \in CacheKeys |-> NoText]
    /\ succeeded = FALSE

\* handle_message, lines 219-222: a trigger of user_id is dispatched and
\* is_rate_limited(user_id) runs.
HandleMessage(user_id, E) ==
    /\ running = 0
    /\ Len(log) < E.triggers
    /\ Cardinality(InFlight) < E.concurrent_updates
    /\ \E now \in Now(E) :
          LET t == CHOOSE f \in FreeSlots : \A g \in FreeSlots : f <= g
              new == NewTask(user_id, now, rate_limit_store, Len(log) + 1)
          IN  /\ clock' = now
              /\ tasks' = [tasks EXCEPT ![t] = new]
              /\ running' = Holder(t, new.pc)
              /\ rate_limit_store' = StoreAfterCheck(rate_limit_store, now, user_id)
              /\ log' = Append(log, LogEntry(user_id, now, rate_limit_store))
    /\ UNCHANGED <<cache, served, succeeded>>

\* handle_message, lines 223-231: the wait is computed and reply_text is
\* awaited.
ComputeWait(t, E) ==
    /\ CanRun(t)
    /\ tasks[t].pc = "wait"
    /\ \E now \in Soon(E) :
          LET wait == remaining_time(rate_limit_store, now, tasks[t].user)
          IN  /\ clock' = now
              /\ tasks' = [tasks EXCEPT ![t].wait = wait, ![t].pc = "reply"]
              /\ log' = [log EXCEPT ![tasks[t].id].due = now + wait]
    /\ running' = Holder(t, "reply")
    /\ UNCHANGED <<rate_limit_store, cache, served, succeeded>>

\* The awaited reply_text returns (the deferral message is out) or raises.
ReplyDone(t) ==
    /\ CanRun(t)
    /\ tasks[t].pc = "reply"
    /\ \/ tasks' = [tasks EXCEPT ![t].out = Append(@, Emission(tasks[t], "deferral")),
                                 ![t].pc = "done"]
       \/ tasks' = [tasks EXCEPT ![t].pc = "aborted"]
    /\ UNCHANGED <<clock, rate_limit_store, cache, running, log, served, succeeded>>

\* handle_message, lines 234-235, and time_process up to its first await.
Record(t, E) ==
    /\ CanRun(t)
    /\ tasks[t].pc = "record"
    /\ \E now \in Soon(E) :
          /\ clock' = now
          /\ rate_limit_store' = update_rate_limit(rate_limit_store, now, tasks[t].user)
          /\ log' = [log EXCEPT ![tasks[t].id].stamp = now]
    /\ tasks' = [tasks EXCEPT ![t].pc = "await",
                              ![t].step = 1,
                              ![t].checked = NoTime,
                              ![t].seen = <<>>]
    /\ running' = Holder(t, "await")
    /\ UNCHANGED <<cache, served, succeeded>>

\* What philosophical_time_discussion / absurd_time_guess read of the cache.
Lookup(key, now) ==
    [key |-> key, at |-> now, entry |-> cache[key], served |-> served[key]]

\* Advance issuing the next send without resolving its text.
Advance_unresolved(r, s, now) ==
    IF s = Len(TIME_PROCESS)
    THEN [r EXCEPT !.pc = "done"]
    ELSE [r EXCEPT !.step = s + 1, !.lookup = NoLookup]

\* The task record after await number s has returned: the next call of
\* time_process is issued, after the cache lookup when its text is an LLM
\* text (philosophical_time_discussion, absurd_time_guess).
Advance(r, s, now) ==
    IF s = Len(TIME_PROCESS)
    THEN [r EXCEPT !.pc = "done"]
    ELSE LET key == KeyOf(TIME_PROCESS[s + 1].msg)
         IN  IF key = "none"
             THEN [r EXCEPT !.step = s + 1, !.lookup = NoLookup]
             ELSE IF is_cache_valid(cache, key, now)
                  THEN [r EXCEPT !.step = s + 1,
                                 !.lookup = Lookup(key, now),
                                 !.calls = <<>>,
                                 !.texts[key] = cache[key].text]
                  ELSE [r EXCEPT !.step = s + 1,
                                 !.lookup = Lookup(key, now),
                                 !.calls = <<>>,
                                 !.pc = "http",
                                 !.model = FREE_MODEL]

\* Whether is_cache_valid reads the clock after await number s: it does
\* when the entry of the next text has a timestamp.
ReadsClock(s) ==
    /\ s < Len(TIME_PROCESS)
    /\ KeyOf(TIME_PROCESS[s + 1].msg) # "none"
    /\ cache[KeyOf(TIME_PROCESS[s + 1].msg)].timestamp # NoTime

\* Whether the text of message msg of task record r can be sent: a text
\* that is None cannot.
Sendable(r, msg) ==
    IF KeyOf(msg) = "none" THEN TRUE ELSE r.texts[KeyOf(msg)] # NoText

\* An awaited send_chat_action or send_message returns, or raises.
AwaitDone(t, E) ==
    /\ CanRun(t)
    /\ tasks[t].pc = "await"
    /\ LET r == tasks[t]
           sent == [r EXCEPT !.out = Append(@, Emission(r, TIME_PROCESS[r.step].msg))]
       IN  \/ \E now \in (IF ReadsClock(r.step) THEN Now(E) ELSE {clock}) :
                 LET next == Advance(sent, r.step, now)
                 IN  /\ Sendable(r, TIME_PROCESS[r.step].msg)
                     /\ clock' = now
                     /\ tasks' = [tasks EXCEPT ![t] = next]
                     /\ running' = Holder(t, next.pc)
           \/ /\ tasks' = [tasks EXCEPT ![t].pc = "aborted"]
              /\ running' = 0
              /\ UNCHANGED clock
    /\ UNCHANGED <<rate_limit_store, cache, log, served, succeeded>>

\* get_ai_response: one requests.post with the task's current model; it
\* returns a body, or anything in the try block raises.
HttpAttempt(t, E) ==
    /\ CanRun(t)
    /\ tasks[t].pc = "http"
    /\ LET r == tasks[t]
           after == get_ai_response_except(r.model)
       IN  \/ /\ \E content \in E.contents :
                    tasks' = [tasks EXCEPT
                        ![t].calls = Append(@, [model |-> r.model, ok |-> TRUE]),
                        ![t].response = content,
                        ![t].pc = "store"]
              /\ succeeded' = TRUE
           \/ /\ tasks' = [tasks EXCEPT
                        ![t].calls = Append(@, [model |-> r.model, ok |-> FALSE]),
                        ![t].response = after.response,
                        ![t].model = after.model,
                        ![t].pc = after.pc]
              /\ UNCHANGED succeeded
    /\ UNCHANGED <<clock, rate_limit_store, cache, running, log, served>>

\* philosophical_time_discussion / absurd_time_guess after the response:
\* the cache entry is overwritten and the text's send_message is awaited.
CacheStore(t, E) ==
    /\ CanRun(t)
    /\ tasks[t].pc = "store"
    /\ LET r == tasks[t]
           key == KeyOf(TIME_PROCESS[r.step].msg)
       IN  /\ \E now \in Now(E) :
                 /\ clock' = now
                 /\ cache' = CacheWrite(cache, key, r.response, now)
           /\ tasks' = [tasks EXCEPT ![t].texts[key] = r.response,
                                     ![t].pc = "await"]
           /\ served' = [served EXCEPT ![key] = r.response]
    /\ running' = Holder(t, "await")
    /\ UNCHANGED <<rate_limit_store, log, succeeded>>

\* The handler has returned or raised: its task is over.
Return(t) ==
    /\ CanRun(t)
    /\ tasks[t].pc \in {"done", "aborted"}
    /\ tasks' = [tasks EXCEPT ![t] = IdleTask]
    /\ UNCHANGED <<clock, rate_limit_store, cache, running, log, served, succeeded>>

\* A step of task t.
TaskStep(t, E) ==
    \/ ComputeWait(t, E)
    \/ ReplyDone(t)
    \/ Record(t, E)
    \/ AwaitDone(t, E)
    \/ HttpAttempt(t, E)
    \/ CacheStore(t, E)
    \/ Return(t)

Next(E) ==
    \/ \E u \in E.users : HandleMessage(u, E)
    \/ \E t \in Slots : TaskStep(t, E)

\* The program as main() builds it: Application.builder() leaves
\* concurrent_updates off, so one update is handled at a time.
Spec == Init /\ [][Next(RateEnv)]_vars

SpecCache == Init /\ [][Next(CacheEnv)]_vars

\* Handlers interleaved as cooperative tasks, switching at their awaits.
SpecInterleaved == Init /\ [][Next(InterleavedEnv)]_vars

SpecNullContent == Init /\ [][Next(NullContentEnv)]_vars

SpecWait == Init /\ [][Next(WaitEnv)]_vars

----------------------------------------------------------------------------
(* Claims *)

Max(S) == CHOOSE x \in S : \A y \in S : y <= x

\* The triggers of user u handled before trigger number n.
Earlier(u, n) == {i \in 1..(n - 1) : log[i].user = u}

\* The tasks whose rate check has just returned.
JustChecked == {t \in Slots : tasks[t].pc \in {"wait", "record"}}

\* Task t is the third of three consecutive triggers of its user, the first
\* of which found no request of the user inside the window; both earlier
\* triggers recorded a timestamp, and t is checked less than 60 s after the
\* first one's.
ThirdWithinWindow(t) ==
    LET n == tasks[t].id
        I == Earlier(tasks[t].user, n)
    IN  /\ Cardinality(I) >= 2
        /\ LET i2 == Max(I)
               i1 == Max(I \ {i2})
           IN  /\ log[i1].count = 0
               /\ log[i1].stamp # NoTime
               /\ log[i2].stamp # NoTime
               /\ tasks[t].checked - log[i1].stamp < RATE_LIMIT_DURATION

\* C1: three triggers of a user who had no request inside the window, the
\* third checked less than 60 s after the first was recorded: the first two
\* are admitted (is_rate_limited false) and the third is rejected (true).
C1_AdmitsTwoThenLimits ==
    \A t \in JustChecked :
        ThirdWithinWindow(t) =>
            LET n == tasks[t].id
                I == Earlier(tasks[t].user, n)
                i2 == Max(I)
                i1 == Max(I \ {i2})
            IN  /\ ~log[i1].limited
                /\ ~log[i2].limited
                /\ log[n].limited
                /\ tasks[t].pc = "wait"

C1_Witness ==
    \E t \in JustChecked :
        /\ ThirdWithinWindow(t)
        /\ tasks[t].pc = "wait"
        /\ tasks[t].checked > 0

\* The admitted triggers of user u: those that recorded a timestamp.
Admitted(u) == {i \in 1..Len(log) : log[i].user = u /\ log[i].stamp # NoTime}

\* The admitted triggers of u inside the 60 s window that ends at instant T.
AdmittedInWindow(u, T) ==
    {i \in Admitted(u) : log[i].stamp <= T /\ T - log[i].stamp < RATE_LIMIT_DURATION}

\* C2: for every user and every trailing 60 s window (one that ends at the
\* instant of an admission), at most MAX_REQUESTS_PER_MINUTE = 2 of the
\* user's triggers are admitted inside the window.
C2_AtMostTwoPerWindow ==
    \A u \in Users : \A k \in Admitted(u) :
        Cardinality(AdmittedInWindow(u, log[k].stamp)) <= MAX_REQUESTS_PER_MINUTE

\* Three admissions of one user, two of them inside one window.
C2_Witness ==
    \E u \in Users :
        /\ Cardinality(Admitted(u)) = 3
        /\ \E k \in Admitted(u) : Cardinality(AdmittedInWindow(u, log[k].stamp)) = 2

\* C3: a check that finds two timestamps of the user, the first 61 s old or
\* more and the second inside the window, returns false, and leaves the
\* second timestamp alone in the user's list.
C3_WindowSlides ==
    \A t \in JustChecked :
        LET r == tasks[t]
        IN  ( /\ Len(r.seen) = 2
              /\ r.checked - r.seen[1] >= 61
              /\ r.checked - r.seen[2] < RATE_LIMIT_DURATION )
            => /\ r.pc = "record"
               /\ ~log[r.id].limited
               /\ rate_limit_store[r.user] = <<r.seen[2]>>

C3_Witness ==
    \E t \in JustChecked :
        LET r == tasks[t]
        IN  /\ Len(r.seen) = 2
            /\ r.checked - r.seen[1] >= 61
            /\ r.checked - r.seen[2] < RATE_LIMIT_DURATION
            /\ r.pc = "record"
            /\ rate_limit_store[r.user] = <<r.seen[2]>>

\* The tasks whose wait has just been computed (reply_text is awaited).
Rejected == {t \in Slots : tasks[t].pc = "reply"}

\* C4: whenever a trigger is rejected the user's list is not empty, the
\* wait is 60 s minus the age of its first element, which is the earliest
\* timestamp and is inside the window; with timestamps at 0 and 10 and the
\* query at 15 the wait is 45; and the wait is more than 0 and at most 60.
C4_WaitInRange ==
    \A t \in Rejected :
        LET r == tasks[t]
            list == ListOf(rate_limit_store, r.user)
        IN  /\ list # <<>>
            /\ r.wait = RATE_LIMIT_DURATION - (clock - list[1])
            /\ \A i \in 1..Len(list) : list[1] <= list[i]
            /\ (list = <<0, 10>> /\ clock = 15) => r.wait = 45
            /\ r.wait > 0
            /\ r.wait <= RATE_LIMIT_DURATION

\* The tasks that have looked a cache key up and not yet sent its text.
LookedUp == {t \in Slots : tasks[t].lookup.key # "none"}

\* The lookup found an entry stored less than 30 minutes before.
Fresh(l) ==
    /\ l.entry.timestamp # NoTime
    /\ l.at - l.entry.timestamp < CACHE_DURATION

\* The lookup found no entry, or one stored more than 30 minutes before.
Stale(l) ==
    \/ l.entry.timestamp = NoTime
    \/ l.at - l.entry.timestamp > CACHE_DURATION

\* C5: a resolution of a key made less than 30 minutes after the entry's
\* stored timestamp returns the string the previous resolution of the key
\* returned, and invokes get_ai_response not at all: the producer runs at
\* most once (for the resolution that stored the entry) inside the window.
C5_CacheFreshness ==
    \A t \in LookedUp :
        LET r == tasks[t]
            l == r.lookup
        IN  Fresh(l) =>
               /\ r.pc \notin {"http", "store"}
               /\ r.calls = <<>>
               /\ l.served # NoText
               /\ r.texts[l.key] = l.served

\* A hit some time after the entry was stored.
C5_Witness ==
    \E t \in LookedUp :
        LET r == tasks[t]
            l == r.lookup
        IN  /\ Fresh(l)
            /\ l.at > l.entry.timestamp
            /\ r.texts[l.key] = l.served
            /\ r.texts[l.key] \in AIContents

\* What get_ai_response returns after the attempts c.
ProducerResult(c, text) ==
    /\ c # <<>>
    /\ c[Len(c)].ok => text \in AIContents
    /\ ~c[Len(c)].ok => text = FALLBACK_TEXT

\* C6: when the entry is absent or more than 30 minutes old at the
\* resolution, the producer is invoked, and once the resolution has stored
\* its result the entry holds the producer's result and the current time;
\* an entry less than 30 minutes old is not recomputed.
C6_CacheExpiry ==
    \A t \in LookedUp :
        LET r == tasks[t]
            l == r.lookup
        IN  /\ Stale(l) =>
                \/ r.pc \in {"http", "store"}
                \/ /\ ProducerResult(r.calls, r.texts[l.key])
                   /\ cache[l.key].text = r.texts[l.key]
                   /\ cache[l.key].timestamp = clock
                   /\ clock >= l.at
            /\ Fresh(l) =>
                /\ r.calls = <<>>
                /\ cache[l.key] = l.entry

\* An entry stored at 0 is recomputed at 1810.
C6_Witness ==
    \E t \in LookedUp :
        LET r == tasks[t]
            l == r.lookup
        IN  /\ l.entry.timestamp # NoTime
            /\ l.at - l.entry.timestamp > CACHE_DURATION
            /\ r.pc = "await"
            /\ r.calls # <<>>
            /\ cache[l.key].timestamp = clock
            /\ cache[l.key].timestamp > l.entry.timestamp

\* C7: a get_ai_response call makes at most two attempts, the first with
\* the free model; a second attempt is made only after the first failed,
\* and with the paid model; a call whose attempt succeeded returns its
\* content; a call whose two attempts failed returns the fallback string;
\* after an attempt with the paid model the call is over; and every call
\* that has made an attempt and is over has returned a string.
C7_FallbackOnce ==
    \A t \in Slots :
        LET r == tasks[t]
            c == r.calls
        IN  /\ Len(c) <= 2
            /\ Len(c) >= 1 => c[1].model = FREE_MODEL
            /\ Len(c) = 2 => ~c[1].ok /\ c[2].model = PAID_MODEL
            /\ r.pc = "http" =>
                  \/ c = <<>> /\ r.model = FREE_MODEL
                  \/ Len(c) = 1 /\ ~c[1].ok /\ r.model = PAID_MODEL
            /\ (c # <<>> /\ r.pc # "http") =>
                  /\ c[Len(c)].ok => r.response \in AIContents
                  /\ ~c[Len(c)].ok => Len(c) = 2 /\ r.response = FALLBACK_TEXT

\* Both attempts failed and the call returned the fallback string.
C7_Witness ==
    \E t \in Slots :
        /\ tasks[t].calls = << [model |-> FREE_MODEL, ok |-> FALSE],
                               [model |-> PAID_MODEL, ok |-> FALSE] >>
        /\ tasks[t].pc = "store"
        /\ tasks[t].response = FALLBACK_TEXT

\* The kinds of the messages sent, typing indicators left out.
Kinds(out) ==
    LET m == SelectSeq(out, LAMBDA e : e.kind # "typing")
    IN  [i \in 1..Len(m) |-> m[i].kind]

\* The text of the message of kind k in out.
TextSent(out, k) ==
    LET i == CHOOSE j \in 1..Len(out) : out[j].kind = k IN out[i].text

Contains(text, part) == \E i \in 1..Len(text) : text[i] = part

\* The tasks whose reveal sequence has run to its end.
Revealed == {t \in Slots : tasks[t].pc = "done" /\ tasks[t].step > 0}

Revealing == {t \in Slots : tasks[t].step > 0}

\* C9: while no HTTP attempt has succeeded, a task in flight can always
\* take its next step, the text of the send it awaits is a string (the
\* fallback string for the philosophy and the guess), a task that has run
\* the reveal sequence to its end has sent every message through the
\* closing one, and the philosophy and guess texts sent are the fallback
\* string.
C9_OutageStillReveals ==
    ~succeeded =>
        /\ \A t \in InFlight : ENABLED TaskStep(t, RateEnv)
        /\ \A t \in Revealing :
              tasks[t].pc = "await" =>
                  LET k == KeyOf(TIME_PROCESS[tasks[t].step].msg)
                  IN  IF k = "none" THEN TRUE
                      ELSE tasks[t].texts[k] = FALLBACK_TEXT
        /\ \A t \in Revealed :
              /\ \A k \in {"intro1", "philosophy", "intro2", "guess",
                            "estimation", "closing"} :
                     \E i \in 1..Len(tasks[t].out) : tasks[t].out[i].kind = k
              /\ tasks[t].out[Len(tasks[t].out)].kind = "closing"
        /\ \A t \in Revealing : \A i \in 1..Len(tasks[t].out) :
              tasks[t].out[i].kind \in {"philosophy", "guess"}
                  => tasks[t].out[i].text = FALLBACK_TEXT

C9_Witness ==
    \E t \in Revealed :
        /\ ~succeeded
        /\ TextSent(tasks[t].out, "philosophy") = FALLBACK_TEXT
        /\ TextSent(tasks[t].out, "guess") = FALLBACK_TEXT
        /\ tasks[t].out[Len(tasks[t].out)].kind = "closing"

\* The stamps of three admitted triggers i, j, k span 60 s or more.
Spread(i, j, k) ==
    \/ log[j].stamp - log[i].stamp >= RATE_LIMIT_DURATION
    \/ log[k].stamp - log[i].stamp >= RATE_LIMIT_DURATION
    \/ log[k].stamp - log[j].stamp >= RATE_LIMIT_DURATION

\* C10 as amended: with triggers of one user handled as interleaved tasks,
\* a handler holds the event loop from its is_rate_limited check to its
\* update_rate_limit call (there is no suspension point between them), so
\* no two handlers are between check and record at once, the count the
\* check saw still holds when the timestamp is recorded, and no three of
\* the user's triggers are admitted less than 60 s apart.
C10_CheckAndRecordAtomic ==
    /\ \A t \in JustChecked : running = t
    /\ Cardinality(JustChecked) <= 1
    /\ \A t \in Slots :
          tasks[t].pc = "record" =>
              Len(ListOf(rate_limit_store, tasks[t].user)) < MAX_REQUESTS_PER_MINUTE
    /\ \A u \in InterleavedEnv.users : \A i, j, k \in Admitted(u) :
          (i < j /\ j < k) => Spread(i, j, k)

\* A trigger is rejected while an admitted trigger of the same user is
\* still running its reveal sequence.
C10_Witness ==
    \E t \in JustChecked : \E o \in Slots \ {t} :
        /\ tasks[t].pc = "wait"
        /\ tasks[o].pc = "await"
        /\ tasks[o].user = tasks[t].user
        /\ Cardinality(Admitted(tasks[t].user)) = 2

\* C10 as stated: check-then-record is not atomic, so that while a handler
\* has passed the check and not yet recorded its timestamp, a second
\* trigger of the same user can be handled (and pass the check too).
C10_CheckThenRecordInterleaves ==
    \A t \in Slots :
        ( /\ tasks[t].pc = "record"
          /\ Len(log) < MaxTriggers
          /\ Cardinality(InFlight) < InterleavedEnv.concurrent_updates )
        => ENABLED HandleMessage(tasks[t].user, InterleavedEnv)

\* The tasks that are between the cache check that found a miss and the
\* cache write of that key.
Resolving == {t \in Slots : tasks[t].pc \in {"http", "store"}}

\* The task whose reveal sequence sends the philosophy text next has not
\* looked the key up yet.
BeforePhilosophy(r) == r.pc = "await" /\ r.step > 0 /\ r.step < 4

\* C11 as amended: with reveal sequences interleaved as cooperative tasks,
\* a task holds the event loop from the cache check that misses to the
\* cache write (requests.post blocks, and get_ai_response awaits nothing
\* that suspends), so no two tasks are between miss and write at once, the
\* entry a task overwrites is the entry it saw at its miss, and a task
\* that resolves the key after the write, inside the cache duration, makes
\* no LLM call.
C11_MissToWriteAtomic ==
    /\ \A t \in Resolving : running = t
    /\ Cardinality(Resolving) <= 1
    /\ \A t \in Resolving : cache[tasks[t].lookup.key] = tasks[t].lookup.entry
    /\ \A t \in LookedUp :
          (tasks[t].lookup.entry.timestamp # NoTime /\ tasks[t].pc = "await")
              => /\ tasks[t].calls = <<>>
                 /\ tasks[t].texts[tasks[t].lookup.key] = tasks[t].lookup.served

\* One task writes the philosophy entry while another task's reveal
\* sequence is under way and has the same key still to resolve.
C11_Witness ==
    \E t \in Resolving : \E o \in Slots \ {t} :
        /\ tasks[t].pc = "store"
        /\ tasks[t].lookup.key = "philosophical_discussion"
        /\ BeforePhilosophy(tasks[o])

\* C11 as stated: nothing keeps a second reveal sequence from running while
\* a first one is between its miss and its cache write, so that the second
\* one observes the miss too.
C11_MissThenInterleaves ==
    \A t \in Resolving : \A o \in Slots \ {t} :
        tasks[o].pc = "await" => ENABLED AwaitDone(o, InterleavedEnv)

\* C12: immediately after is_rate_limited(u) has returned, every timestamp
\* stored for any user is less than 60 s older than the instant the call
\* read: the lists of all users are pruned, not only u's.
C12_AllUsersPruned ==
    \A t \in JustChecked :
        \A u \in DOMAIN rate_limit_store :
            \A i \in 1..Len(rate_limit_store[u]) :
                tasks[t].checked - rate_limit_store[u][i] < RATE_LIMIT_DURATION

\* The check of one user has pruned a timestamp of another user.
C12_Witness ==
    \E t \in JustChecked : \E i \in 1..Len(log) :
        /\ log[i].user # tasks[t].user
        /\ log[i].stamp # NoTime
        /\ tasks[t].checked - log[i].stamp >= RATE_LIMIT_DURATION
        /\ log[i].user \notin DOMAIN rate_limit_store

\* The tasks that are between is_rate_limited returning False and
\* update_rate_limit.
Recording == {t \in Slots : tasks[t].pc = "record"}

\* C13 as amended: the only empty list the mapping ever holds is that of
\* the user whose check has just returned False and whose timestamp is
\* about to be appended (the list the defaultdict created when the check
\* read it); whenever the event loop is free no list is empty.
C13_EmptyOnlyBeforeRecord ==
    /\ \A u \in DOMAIN rate_limit_store :
          rate_limit_store[u] = <<>> =>
              \E t \in Recording : tasks[t].user = u /\ running = t
    /\ running = 0 =>
          \A u \in DOMAIN rate_limit_store : rate_limit_store[u] # <<>>

\* The check of a user without timestamps has returned, and the mapping
\* holds the user with an empty list.
C13_Witness ==
    \E t \in Recording :
        /\ tasks[t].user \in DOMAIN rate_limit_store
        /\ rate_limit_store[tasks[t].user] = <<>>

\* C13 as stated: after is_rate_limited has returned the mapping holds no
\* user with an empty list, the queried user included.
C13_NoEmptyAfterCheck ==
    \A t \in JustChecked :
        \A u \in DOMAIN rate_limit_store : rate_limit_store[u] # <<>>

\* C14: in every reachable state, for both cache keys the text is absent
\* exactly when the timestamp is absent, and the keys of the cache are
\* exactly philosophical_discussion and absurd_guess; and a step that
\* changes the entry of one key leaves the entry of the other key as it is.
C14_TextIffTimestamp ==
    /\ [](/\ DOMAIN cache = CacheKeys
          /\ \A k \in CacheKeys :
                (cache[k].text = NoText) <=> (cache[k].timestamp = NoTime))
    /\ [][\A k \in CacheKeys :
             cache'[k] # cache[k] =>
                 \A j \in CacheKeys \ {k} : cache'[j] = cache[j]]_vars

\* What of C14 holds whatever the LLM service answers: the key set is
\* fixed, a text is stored only together with a timestamp, and a step
\* changes the entry of at most one key.
C14_KeysFixedAndFramed ==
    /\ [](/\ DOMAIN cache = CacheKeys
          /\ \A k \in CacheKeys :
                (cache[k].timestamp = NoTime) => (cache[k].text = NoText))
    /\ [][\A k \in CacheKeys :
             cache'[k] # cache[k] =>
                 \A j \in CacheKeys \ {k} : cache'[j] = cache[j]]_vars

\* The network calls of one reveal sequence, in program order.
ProgramOrder ==
    << "typing", "intro1", "typing", "philosophy", "typing", "intro2",
       "typing", "guess", "typing", "intro3", "typing", "estimation",
       "closing" >>

\* The number of calls of task record r that have returned.
Returned(r) ==
    CASE r.pc \in {"await", "http", "store", "aborted"} -> r.step - 1
      [] r.pc = "done" -> r.step
      [] OTHER -> 0

\* The text of cache key k is resolved in task record r.
Resolved(r, k) == r.texts[k] # NoText

\* C15: under any interleaving with other events' sequences, the calls of
\* one event have returned in program order: what the event has emitted is
\* a prefix of the program's calls, one call is outstanding at a time, and
\* the philosophy text and the guess text are resolved before their own
\* send is issued, hence before the intro message that follows.
C15_ProgramOrder ==
    \A t \in Revealing :
        LET r == tasks[t]
        IN  /\ Len(r.out) = Returned(r)
            /\ Len(r.out) <= Len(ProgramOrder)
            /\ \A i \in 1..Len(r.out) : r.out[i].kind = ProgramOrder[i]
            /\ (r.pc = "await" /\ ProgramOrder[r.step] = "philosophy")
                   => Resolved(r, "philosophical_discussion")
            /\ (r.pc = "await" /\ ProgramOrder[r.step] = "guess")
                   => Resolved(r, "absurd_guess")
            /\ \A i \in 1..Len(r.out) :
                   /\ r.out[i].kind = "philosophy" =>
                         /\ Resolved(r, "philosophical_discussion")
                         /\ r.out[i].text = r.texts["philosophical_discussion"]
                   /\ r.out[i].kind = "guess" =>
                         /\ Resolved(r, "absurd_guess")
                         /\ r.out[i].text = r.texts["absurd_guess"]

\* Two sequences are under way at different steps, one of them past its
\* second intro message.
C15_Witness ==
    \E t \in Revealing : \E o \in Revealing \ {t} :
        /\ tasks[t].pc = "await"
        /\ tasks[o].pc = "await"
        /\ tasks[t].step > 6
        /\ tasks[o].step < tasks[t].step
        /\ tasks[o].step > 1

\* The tasks whose reveal sequence was ended by a send that raised.
Aborted == {t \in Revealing : tasks[t].pc = "aborted"}

Elements(seq) == {seq[i] : i \in 1..Len(seq)}

\* C16: when a send of the reveal sequence raises, the handler is over: the
\* messages emitted are those before the failed call, the only step left
\* is the handler's end, and that step changes neither the rate-limit store
\* nor the cache; the trigger's timestamp is in the user's list, and the
\* cache holds the texts the sequence resolved before the failure.
C16_AbortKeepsEffects ==
    /\ [](\A t \in Aborted :
            LET r == tasks[t]
            IN  /\ Len(r.out) = r.step - 1
                /\ ~ENABLED AwaitDone(t, RateEnv)
                /\ ~ENABLED HttpAttempt(t, RateEnv)
                /\ ~ENABLED CacheStore(t, RateEnv)
                /\ log[r.id].stamp # NoTime
                /\ r.user \in DOMAIN rate_limit_store
                /\ log[r.id].stamp \in Elements(rate_limit_store[r.user])
                /\ \A k \in CacheKeys :
                      r.texts[k] # NoText =>
                          /\ cache[k].text = r.texts[k]
                          /\ cache[k].timestamp # NoTime)
    /\ [][\A t \in Aborted :
             /\ rate_limit_store' = rate_limit_store
             /\ cache' = cache
             /\ tasks'[t] = IdleTask]_vars

\* The send of the second intro raised after the philosophy text was
\* resolved and sent.
C16_Witness ==
    \E t \in Aborted :
        /\ tasks[t].step = 6
        /\ tasks[t].texts["philosophical_discussion"] # NoText
        /\ cache["philosophical_discussion"].text = tasks[t].texts["philosophical_discussion"]
        /\ log[tasks[t].id].stamp \in Elements(rate_limit_store[tasks[t].user])

\* Every list of the store is in non-decreasing order.
Chronological(store) ==
    \A u \in DOMAIN store :
        \A i, j \in 1..Len(store[u]) : i < j => store[u][i] <= store[u][j]

\* C17: the step that runs update_rate_limit(u) appends the instant it read
\* to u's list, removes nothing, and leaves every other user's list as it
\* is; and in every reachable state every list is in non-decreasing order,
\* so that its first element is its oldest timestamp.
C17_AppendOnlyChronological ==
    /\ [](/\ Chronological(rate_limit_store)
          /\ \A u \in DOMAIN rate_limit_store :
                \A i \in 1..Len(rate_limit_store[u]) :
                    rate_limit_store[u][1] <= rate_limit_store[u][i])
    /\ [][\A t \in Recording :
             LET u == tasks[t].user
             IN  /\ rate_limit_store'[u] = Append(ListOf(rate_limit_store, u), clock')
                 /\ DOMAIN rate_limit_store' = DOMAIN rate_limit_store \cup {u}
                 /\ \A v \in DOMAIN rate_limit_store \ {u} :
                       rate_limit_store'[v] = rate_limit_store[v]]_vars

\* A timestamp has been appended to a list that held an older one, while
\* another user has a list too.
C17_Witness ==
    \E u \in DOMAIN rate_limit_store : \E v \in DOMAIN rate_limit_store \ {u} :
        /\ Len(rate_limit_store[u]) = 2
        /\ rate_limit_store[u][1] < rate_limit_store[u][2]
        /\ rate_limit_store[v] # <<>>

\* The tasks whose trigger was rejected as rate-limited.
Deferred ==
    {t \in Slots : \/ tasks[t].pc \in {"wait", "reply"}
                   \/ tasks[t].pc \in {"done", "aborted"} /\ tasks[t].step = 0}

\* The triggers of task t's user after trigger j and before t's own.
Between(j, t) == {i \in Earlier(tasks[t].user, tasks[t].id) : i > j}

\* Task t's trigger is checked at the instant the wait announced to its
\* user at rejection j ends, the user's triggers in between all rejected.
AfterAnnouncedWait(j, t) ==
    /\ j \in Earlier(tasks[t].user, tasks[t].id)
    /\ log[j].due # NoTime
    /\ tasks[t].checked = log[j].due
    /\ \A i \in Between(j, t) : log[i].limited

\* C18: a rejected trigger records no timestamp, starts no reveal sequence
\* and emits at most the deferral message, leaving the user's list as the
\* check left it; and a trigger checked exactly when an announced wait ends
\* is admitted, however many rejected triggers the user sent in between.
C18_RejectionsDoNotExtendWait ==
    /\ \A t \in Deferred :
          LET r == tasks[t]
          IN  /\ r.step = 0
              /\ log[r.id].limited
              /\ log[r.id].stamp = NoTime
              /\ Len(r.out) <= 1
              /\ \A i \in 1..Len(r.out) : r.out[i].kind = "deferral"
              /\ rate_limit_store[r.user] =
                    SelectSeq(r.seen, LAMBDA ts : InWindow(r.checked, ts))
    /\ \A t \in JustChecked :
          \A j \in 1..Len(log) :
              AfterAnnouncedWait(j, t) =>
                  /\ tasks[t].pc = "record"
                  /\ ~log[tasks[t].id].limited

\* A user rejected twice is admitted at the end of the wait announced at
\* the first rejection.
C18_Witness ==
    \E t \in JustChecked : \E j \in 1..Len(log) :
        /\ AfterAnnouncedWait(j, t)
        /\ Between(j, t) # {}
        /\ log[j].due > 0
        /\ tasks[t].pc = "record"

\* The user's own admitted triggers before task t's whose timestamps are
\* inside the window at t's check.
OwnInWindow(t) ==
    {i \in Admitted(tasks[t].user) :
        /\ i < tasks[t].id
        /\ InWindow(tasks[t].checked, log[i].stamp)}

\* The triggers of other users before task t's.
OthersBefore(t) ==
    {i \in 1..(tasks[t].id - 1) : log[i].user # tasks[t].user}

\* C19: the outcome of a trigger is a function of its user's own history
\* alone: the trigger is rejected exactly when at least 2 of the user's own
\* earlier admissions are less than 60 s old at its check, whatever other
\* users triggered, and what the check saw in the store is the user's own
\* recorded timestamps.  Two runs that differ only in other users'
\* triggers therefore give each trigger of the user the same outcome.
C19_OutcomeFromOwnHistory ==
    \A t \in JustChecked :
        /\ log[tasks[t].id].limited
              <=> Cardinality(OwnInWindow(t)) >= MAX_REQUESTS_PER_MINUTE
        /\ (tasks[t].pc = "wait") <=> log[tasks[t].id].limited
        /\ log[tasks[t].id].count = Cardinality(OwnInWindow(t))
        /\ \A i \in 1..Len(tasks[t].seen) :
              \E k \in Admitted(tasks[t].user) : log[k].stamp = tasks[t].seen[i]

\* A user is admitted although another user was admitted twice inside the
\* window.
C19_Witness ==
    \E t \in JustChecked :
        /\ Cardinality(OthersBefore(t)) = 2
        /\ \A i \in OthersBefore(t) :
              /\ log[i].stamp # NoTime
              /\ InWindow(tasks[t].checked, log[i].stamp)
        /\ tasks[t].pc = "record"
        /\ tasks[t].checked > 0

\* Both attempts of the call failed.
BothFailed(c) == Len(c) = 2 /\ ~c[1].ok /\ ~c[2].ok

\* C20: a resolution whose two LLM attempts failed stores the fallback
\* string with the instant it read, like a generated text; and a resolution
\* that finds the fallback string stored less than 30 minutes before
\* returns it without any LLM call, whether or not an attempt has succeeded
\* since.
C20_FallbackIsCached ==
    \A t \in LookedUp :
        LET r == tasks[t]
            l == r.lookup
        IN  /\ (r.pc = "await" /\ BothFailed(r.calls)) =>
                  /\ cache[l.key] = [text |-> FALLBACK_TEXT, timestamp |-> clock]
                  /\ r.texts[l.key] = FALLBACK_TEXT
            /\ (Fresh(l) /\ l.entry.text = FALLBACK_TEXT) =>
                  /\ r.pc \notin {"http", "store"}
                  /\ r.calls = <<>>
                  /\ r.texts[l.key] = FALLBACK_TEXT
                  /\ cache[l.key] = l.entry

\* The fallback string is served from the cache after an LLM attempt has
\* succeeded.
C20_Witness ==
    \E t \in LookedUp :
        LET r == tasks[t]
            l == r.lookup
        IN  /\ Fresh(l)
            /\ l.entry.text = FALLBACK_TEXT
            /\ l.at > l.entry.timestamp
            /\ succeeded
            /\ r.calls = <<>>
            /\ r.texts[l.key] = FALLBACK_TEXT

====
